---- MODULE Spec2Model ----
(***************************************************************************)
(* Model of the FibonacciBilling engine (fibonacci-billing.js).            *)
(*                                                                         *)
(* Numbers are exact fixed-point integers:                                 *)
(*   money          in cents                  (Hundredths units per 1.00)  *)
(*   discountRate   in thousandths            (RateScale units per 1.0)    *)
(*   discount field in hundredths of a percent                             *)
(* toFixed(2) followed by parseFloat is rounding to the nearest cent, ties *)
(* away from zero, of the exact quotient (RoundDiv).  The code computes in  *)
(* IEEE doubles, where a product that is an exact tie in decimal can land  *)
(* on either side of it; the prices and rates the constructor is given     *)
(* here (10, 9.98, 20; 0.05, 0.333, 1.5, -0.001) are ones for which the    *)
(* double computation and the exact one round to the same hundredth for    *)
(* every term the model reaches.  The two quotients of getBillingSummary   *)
(* do meet such ties (55.89 / 6 = 9.315 gives 9.31 in doubles), so there   *)
(* an exact tie rounds either way (RoundDivTie).                           *)
(* JavaScript arrays are 0-based: sequence[i] of the code is seq[i + 1].   *)
(* The Stripe integration (fibonacci-stripe.ts) holds one engine; the       *)
(* metadata it writes to a subscription are strings, modelled as sequences *)
(* of decimal digits.                                                      *)
(***************************************************************************)
EXTENDS Integers, Sequences, FiniteSets, TLC

VARIABLES
    basePrice,      \* this.basePrice, cents
    discountRate,   \* this.discountRate, thousandths
    capTerm,        \* this.capTerm
    maxTerm,        \* this.maxTerm
    sequence,       \* this.sequence
    last,           \* the most recent call on the instance and what it returned
    mem,            \* an earlier call on the instance (history variable)
    options,        \* the options the constructor was called with
    peer,           \* a second, separately constructed instance
    active,         \* the instance the most recent call was made on
    subscriptions,  \* the metadata of the subscriptions kept by Stripe
    calls           \* the updateSubscriptionToNextTerm calls under way

vars == <<basePrice, discountRate, capTerm, maxTerm, sequence, last, mem,
          options, peer, active, subscriptions, calls>>

\* The state of the Stripe integration outside its billing engine.
stripe == <<subscriptions, calls>>

\* The fields set at construction.
config == <<basePrice, discountRate, capTerm, maxTerm, options>>

-----------------------------------------------------------------------------
(* Bounds of the model *)

MaxLen == 13        \* the cache is not grown beyond this many entries
MaxCycle == 13      \* largest currentCycle passed to an operation
MaxNegative == 2    \* currentCycle goes down to -MaxNegative
MaxCycles == 13     \* largest number of cycles asked of a schedule or summary

Cycles == (0 - MaxNegative)..MaxCycle

CycleCounts == 0..MaxCycles

-----------------------------------------------------------------------------
(* Units and program constants *)

Hundredths == 100           \* toFixed(2): two decimals of a money amount
RateScale == 1000           \* units of discountRate per 1.0
DiscountCap == 500          \* Math.min(..., 0.5), in thousandths
PercentScale == 100         \* discount * 100: a fraction as a percentage

DefaultBasePrice == 1000    \* options.basePrice || 10
DefaultDiscountRate == 50   \* options.discountRate || 0.05
DefaultMaxTerm == 0         \* options.maxTerm || 0

SeedSequence == <<1, 2, 3, 5, 8, 13, 21, 34, 55, 89, 144>>

-----------------------------------------------------------------------------
(* Helpers *)

Min(a, b) == IF a <= b THEN a ELSE b

Abs(a) == IF a < 0 THEN 0 - a ELSE a

\* Number.prototype.toFixed(2) + parseFloat of the exact value num / den
\* (den > 0), the result in units of 1/100: the nearest integer n to
\* num / den, the larger |n| on a tie.
RoundDiv(num, den) ==
    LET n == Abs(num)
        q == (n \div den) + (IF 2 * (n % den) >= den THEN 1 ELSE 0)
    IN  IF num >= 0 THEN q ELSE 0 - q

\* `x || d` on a number option: an omitted option and 0 both give d.
NumOrDefault(opt, d) == IF opt.given /\ opt.val # 0 THEN opt.val ELSE d

\* `x || false` on the boolean option.
BoolOrDefault(opt) == IF opt.given THEN opt.val ELSE FALSE

-----------------------------------------------------------------------------
(* getNextTerm *)

\* The new element written over the last one instead of appended.
GrowSequenceOverwrite(seq, c) ==
    IF c >= Len(seq)
    THEN [seq EXCEPT ![Len(seq)] = seq[Len(seq)] + seq[Len(seq) - 1]]
    ELSE seq

\* The new element the double of the last one.
GrowSequenceDoubled(seq, c) ==
    IF c >= Len(seq)
    THEN Append(seq, seq[Len(seq)] + seq[Len(seq)])
    ELSE seq

\* The cache extended until it covers currentCycle.
RECURSIVE GrowSequenceLoop(_, _)
GrowSequenceLoop(seq, c) ==
    IF c >= Len(seq)
    THEN GrowSequenceLoop(Append(seq, seq[Len(seq)] + seq[Len(seq) - 1]), c)
    ELSE seq

\* Two elements appended in one growth step.
GrowSequenceTwice(seq, c) ==
    IF c >= Len(seq)
    THEN Append(Append(seq, seq[Len(seq)] + seq[Len(seq) - 1]),
                seq[Len(seq)] + seq[Len(seq)] + seq[Len(seq) - 1])
    ELSE seq

\* lines 30-35: one append when currentCycle is at or beyond the length
GrowSequence(seq, c) ==
    IF c >= Len(seq)
    THEN Append(seq, seq[Len(seq)] + seq[Len(seq) - 1])
    ELSE seq

\* The last element selected, whatever the cycle.
SelectTermLast(seq, c) == seq[Len(seq)]

\* line 36: this.sequence[Math.min(currentCycle, this.sequence.length - 1)]
SelectTerm(seq, c) == seq[Min(c, Len(seq) - 1) + 1]

\* The cap left out.
ApplyCapDropped(term, cap, mx) == term

\* The cap applied whenever maxTerm > 0, capTerm not looked at.
ApplyCapIgnoringFlag(term, cap, mx) == IF mx > 0 THEN Min(term, mx) ELSE term

\* The cap applied whenever capTerm is set, a maxTerm of 0 included.
ApplyCapUnguarded(term, cap, mx) == IF cap THEN Min(term, mx) ELSE term

\* lines 38-40: the cap
ApplyCap(term, cap, mx) == IF cap /\ mx > 0 THEN Min(term, mx) ELSE term

\* The early return taking the last element instead of the first.
NegativeCycleTermLast(seq) == seq[Len(seq)]

\* lines 27-29: the early return for a negative cycle
NegativeCycleTerm(seq) == seq[1]

\* The cache after getNextTerm(c).
SequenceAfter(seq, c) == IF c < 0 THEN seq ELSE GrowSequence(seq, c)

\* The appended element returned from the growth branch, before the cap.
getNextTermGrownUncapped(seq, c, cap, mx) ==
    IF c < 0 THEN NegativeCycleTerm(seq)
    ELSE IF c >= Len(seq) THEN SelectTerm(GrowSequence(seq, c), c)
    ELSE ApplyCap(SelectTerm(GrowSequence(seq, c), c), cap, mx)

\* The value getNextTerm(c) returns.
getNextTerm(seq, c, cap, mx) ==
    IF c < 0 THEN NegativeCycleTerm(seq)
    ELSE ApplyCap(SelectTerm(GrowSequence(seq, c), c), cap, mx)

-----------------------------------------------------------------------------
(* calculateNextBilling *)

\* The discount without its 50% ceiling.
DiscountFractionUncapped(rate, termMonths) == rate * (termMonths - 1)

\* The discount counting every month of the term, the first included.
DiscountFractionPerMonth(rate, termMonths) == Min(rate * termMonths, DiscountCap)

\* The discount with its ceiling at 100% instead of 50%.
DiscountFractionCapAtOne(rate, termMonths) == Min(rate * (termMonths - 1), RateScale)

\* line 52: Math.min(this.discountRate * (termMonths - 1), 0.5), thousandths
DiscountFraction(rate, termMonths) == Min(rate * (termMonths - 1), DiscountCap)

\* The record with the monthly rate taken from the undiscounted amount.
BillingInfoUndiscountedRate(c, termMonths, price, rate) ==
    LET baseAmount == price * termMonths
        discount == DiscountFraction(rate, termMonths)
        discountedNum == baseAmount * (RateScale - discount)
    IN  [cycle |-> c + 1,
         termMonths |-> termMonths,
         baseAmount |-> RoundDiv(baseAmount, 1),
         discount |-> RoundDiv(discount * PercentScale * Hundredths, RateScale),
         finalAmount |-> RoundDiv(discountedNum, RateScale),
         savingsAmount |-> RoundDiv(baseAmount * discount, RateScale),
         effectiveMonthlyRate |-> RoundDiv(baseAmount, termMonths)]

\* The record with the cycle reported 0-indexed, as it was passed.
BillingInfoZeroIndexed(c, termMonths, price, rate) ==
    LET baseAmount == price * termMonths
        discount == DiscountFraction(rate, termMonths)
        discountedNum == baseAmount * (RateScale - discount)
    IN  [cycle |-> c,
         termMonths |-> termMonths,
         baseAmount |-> RoundDiv(baseAmount, 1),
         discount |-> RoundDiv(discount * PercentScale * Hundredths, RateScale),
         finalAmount |-> RoundDiv(discountedNum, RateScale),
         savingsAmount |-> RoundDiv(baseAmount * discount, RateScale),
         effectiveMonthlyRate |-> RoundDiv(discountedNum, RateScale * termMonths)]

\* The record with the savings cut to 2 decimals instead of rounded.
BillingInfoSavingsTruncated(c, termMonths, price, rate) ==
    LET baseAmount == price * termMonths
        discount == DiscountFraction(rate, termMonths)
        discountedNum == baseAmount * (RateScale - discount)
    IN  [cycle |-> c + 1,
         termMonths |-> termMonths,
         baseAmount |-> RoundDiv(baseAmount, 1),
         discount |-> RoundDiv(discount * PercentScale * Hundredths, RateScale),
         finalAmount |-> RoundDiv(discountedNum, RateScale),
         savingsAmount |-> (baseAmount * discount) \div RateScale,
         effectiveMonthlyRate |-> RoundDiv(discountedNum, RateScale * termMonths)]

\* lines 49-62: the record returned for a resolved term
BillingInfo(c, termMonths, price, rate) ==
    LET baseAmount == price * termMonths
        discount == DiscountFraction(rate, termMonths)
        \* discountedAmount = discountedNum / RateScale
        discountedNum == baseAmount * (RateScale - discount)
    IN  [cycle |-> c + 1,
         termMonths |-> termMonths,
         baseAmount |-> RoundDiv(baseAmount, 1),
         discount |-> RoundDiv(discount * PercentScale * Hundredths, RateScale),
         finalAmount |-> RoundDiv(discountedNum, RateScale),
         savingsAmount |-> RoundDiv(baseAmount * discount, RateScale),
         effectiveMonthlyRate |-> RoundDiv(discountedNum, RateScale * termMonths)]

calculateNextBilling(seq, c, price, rate, cap, mx) ==
    BillingInfo(c, getNextTerm(seq, c, cap, mx), price, rate)

-----------------------------------------------------------------------------
(* generateBillingSchedule *)

\* lines 70-74: the loop from i on, over the cache seq, schedule built so far
RECURSIVE ScheduleLoop(_, _, _, _, _, _, _, _)
ScheduleLoop(seq, i, cycles, schedule, price, rate, cap, mx) ==
    IF i < cycles
    THEN ScheduleLoop(SequenceAfter(seq, i), i + 1, cycles,
                      Append(schedule, calculateNextBilling(seq, i, price, rate, cap, mx)),
                      price, rate, cap, mx)
    ELSE [schedule |-> schedule, sequence |-> seq]

\* The loop running while i <= cycles.
generateBillingScheduleInclusive(seq, cycles, price, rate, cap, mx) ==
    ScheduleLoop(seq, 0, cycles + 1, <<>>, price, rate, cap, mx)

\* The loop running from i = 1 to cycles.
generateBillingScheduleFromOne(seq, cycles, price, rate, cap, mx) ==
    ScheduleLoop(seq, 1, cycles + 1, <<>>, price, rate, cap, mx)

\* lines 69-75: the schedule returned and the cache the call leaves
generateBillingSchedule(seq, cycles, price, rate, cap, mx) ==
    ScheduleLoop(seq, 0, cycles, <<>>, price, rate, cap, mx)

-----------------------------------------------------------------------------
(* getBillingSummary *)

\* A number that may be NaN or infinite (val is then the sign).
Finite(v) == [kind |-> "finite", val |-> v]

NaN == [kind |-> "NaN", val |-> 0]

Infinity(sign) == [kind |-> "Infinity", val |-> sign]

\* toFixed(2) + parseFloat of num / den as RoundDiv, an exact tie rounding up
\* in magnitude or not as the double happens to fall.
RoundDivTie(num, den, up) ==
    LET n == Abs(num)
        q == (n \div den)
              + (IF 2 * (n % den) > den \/ (2 * (n % den) = den /\ up) THEN 1 ELSE 0)
    IN  IF num >= 0 THEN q ELSE 0 - q

\* The quotient with a zero divisor answered by 0.
QuotientZeroGuarded(num, den, up) ==
    IF den = 0 THEN Finite(0) ELSE Finite(RoundDivTie(num, den, up))

\* parseFloat((num / den).toFixed(2)), den >= 0: 0 / 0 is NaN, x / 0 infinite.
Quotient(num, den, up) ==
    IF den = 0 THEN (IF num = 0 THEN NaN ELSE Infinity(IF num > 0 THEN 1 ELSE -1))
    ELSE Finite(RoundDivTie(num, den, up))

\* parseFloat(((num / den) * 100).toFixed(2)), den >= 0.  The multiplication
\* by 100 * 100 hundredths is done in two steps of 100 to stay within 32 bits.
PercentQuotient(num, den, up) ==
    IF den = 0 THEN (IF num = 0 THEN NaN ELSE Infinity(IF num > 0 THEN 1 ELSE -1))
    ELSE LET n == Abs(num)
             q1 == (n * PercentScale) \div den
             r1 == (n * PercentScale) % den
             v == q1 * Hundredths + RoundDivTie(r1 * Hundredths, den, up)
         IN  Finite(IF num >= 0 THEN v ELSE 0 - v)

\* lines 83-86: schedule.reduce((sum, item) => sum + item.<field>, 0) over the
\* first k entries
RECURSIVE Reduce(_, _, _)
Reduce(schedule, field, k) ==
    IF k = 0 THEN 0 ELSE Reduce(schedule, field, k - 1) + schedule[k][field]

\* The totals with the savings summed from the final amounts.
TotalsSavingsOfFinal(schedule) ==
    [totalMonths |-> Reduce(schedule, "termMonths", Len(schedule)),
     totalAmount |-> Reduce(schedule, "finalAmount", Len(schedule)),
     totalBaseAmount |-> Reduce(schedule, "baseAmount", Len(schedule)),
     totalSavings |-> Reduce(schedule, "finalAmount", Len(schedule))]

\* lines 82-86: the four totals of a schedule
Totals(schedule) ==
    [totalMonths |-> Reduce(schedule, "termMonths", Len(schedule)),
     totalAmount |-> Reduce(schedule, "finalAmount", Len(schedule)),
     totalBaseAmount |-> Reduce(schedule, "baseAmount", Len(schedule)),
     totalSavings |-> Reduce(schedule, "savingsAmount", Len(schedule))]

\* The summary with the monthly rate taken per cycle, not per month.
getBillingSummaryPerCycle(cycles, totals, up1, up2) ==
    [cycles |-> cycles,
     totalMonths |-> totals.totalMonths,
     totalAmount |-> RoundDiv(totals.totalAmount, 1),
     totalBaseAmount |-> RoundDiv(totals.totalBaseAmount, 1),
     totalSavings |-> RoundDiv(totals.totalSavings, 1),
     savingsPercentage |->
         PercentQuotient(totals.totalSavings, totals.totalBaseAmount, up1),
     effectiveMonthlyRate |-> Quotient(totals.totalAmount, cycles, up2)]

\* lines 87-95: the summary returned for the totals of the schedule
getBillingSummary(cycles, totals, up1, up2) ==
    [cycles |-> cycles,
     totalMonths |-> totals.totalMonths,
     totalAmount |-> RoundDiv(totals.totalAmount, 1),
     totalBaseAmount |-> RoundDiv(totals.totalBaseAmount, 1),
     totalSavings |-> RoundDiv(totals.totalSavings, 1),
     savingsPercentage |->
         PercentQuotient(totals.totalSavings, totals.totalBaseAmount, up1),
     effectiveMonthlyRate |-> Quotient(totals.totalAmount, totals.totalMonths, up2)]

-----------------------------------------------------------------------------
(* State machine *)

NoInfo == [cycle |-> 0, termMonths |-> 0, baseAmount |-> 0, discount |-> 0,
           finalAmount |-> 0, savingsAmount |-> 0, effectiveMonthlyRate |-> 0]

NoSummary == [cycles |-> 0, totalMonths |-> 0, totalAmount |-> 0, totalBaseAmount |-> 0,
              totalSavings |-> 0, savingsPercentage |-> Finite(0),
              effectiveMonthlyRate |-> Finite(0)]

NoCall == [op |-> "none", arg |-> 0, term |-> 0, info |-> NoInfo, adjacent |-> FALSE,
           schedule |-> <<>>, summary |-> NoSummary]

\* Options the constructor is called with.
BasePriceOptions ==
    {[given |-> FALSE, val |-> 0]}
        \cup {[given |-> TRUE, val |-> v] : v \in {0, 998, 2000}}

DiscountRateOptions ==
    {[given |-> FALSE, val |-> 0]}
        \cup {[given |-> TRUE, val |-> v] : v \in {0, 333, 1500, -1}}

CapTermOptions ==
    {[given |-> FALSE, val |-> FALSE]} \cup {[given |-> TRUE, val |-> v] : v \in BOOLEAN}

MaxTermOptions ==
    {[given |-> FALSE, val |-> 0]} \cup {[given |-> TRUE, val |-> v] : v \in {1, 6, 144, 300}}

NoOption == [given |-> FALSE, val |-> 0]

\* The subscriptions of the Stripe account.
SubscriptionIds == {"sub_A", "sub_B"}

\* Number.prototype.toString() of an integer n >= 0: its decimal digits.
RECURSIVE NumberToString(_)
NumberToString(n) ==
    IF n < 10 THEN <<n>> ELSE Append(NumberToString(n \div 10), n % 10)

\* The value of the first k digits of str.
RECURSIVE ParseDigits(_, _)
ParseDigits(str, k) == IF k = 0 THEN 0 ELSE 10 * ParseDigits(str, k - 1) + str[k]

\* parseInt(str, 10) of a non-empty string of digits
parseInt(str) == ParseDigits(str, Len(str))

\* The metadata written to a subscription: fibonacciBillingCycle and
\* termMonths of nextBilling as strings (the amounts, written beside them, are
\* never read back).
Metadata(nextBilling) ==
    [fibonacciBillingCycle |-> NumberToString(nextBilling.cycle),
     termMonths |-> NumberToString(nextBilling.termMonths)]

\* A subscription that does not exist, or has no fibonacciBillingCycle.
NoMetadata == [fibonacciBillingCycle |-> <<>>, termMonths |-> <<>>]

\* No updateSubscriptionToNextTerm call under way for a subscription.
NoUpdate == [pc |-> "idle", metadata |-> NoMetadata, nextBilling |-> NoInfo]

\* lines 14-20: the instance `new FibonacciBilling(options)` builds
NewInstance(bp, dr, ct, mt) ==
    [basePrice |-> NumOrDefault(bp, DefaultBasePrice),
     discountRate |-> NumOrDefault(dr, DefaultDiscountRate),
     capTerm |-> BoolOrDefault(ct),
     maxTerm |-> NumOrDefault(mt, DefaultMaxTerm),
     sequence |-> SeedSequence]

\* One array shared by the instances: a write by one is seen by the other.
InstanceCacheShared(own, written) == written

\* line 19: `this.sequence = [...]` gives each instance an array of its own,
\* so own, the cache of one instance, is what it was after another instance
\* wrote `written` into its cache.
InstanceCache(own, written) == own

\* lines 14-20: the constructor, called for the instance and for the second one
ConstructBoth(bp, dr, ct, mt, second) ==
    /\ basePrice = NewInstance(bp, dr, ct, mt).basePrice
    /\ discountRate = NewInstance(bp, dr, ct, mt).discountRate
    /\ capTerm = NewInstance(bp, dr, ct, mt).capTerm
    /\ maxTerm = NewInstance(bp, dr, ct, mt).maxTerm
    /\ sequence = NewInstance(bp, dr, ct, mt).sequence
    /\ options = [basePrice |-> bp, discountRate |-> dr, capTerm |-> ct, maxTerm |-> mt]
    /\ last = NoCall
    /\ mem = NoCall
    /\ peer = second
    /\ active = "none"
    /\ subscriptions = [id \in SubscriptionIds |-> NoMetadata]
    /\ calls = [id \in SubscriptionIds |-> NoUpdate]

\* The second instance constructed with no options.
Construct(bp, dr, ct, mt) ==
    ConstructBoth(bp, dr, ct, mt, NewInstance(NoOption, NoOption, NoOption, NoOption))

\* The cap options of the engines asked for terms: none, capTerm false with a
\* maxTerm, capTerm true with no maxTerm, and capTerm true with a maxTerm
\* below, at and above the last seeded term.
TermCapOptions ==
    {<<NoOption, NoOption>>,
     <<[given |-> TRUE, val |-> FALSE], [given |-> TRUE, val |-> 6]>>,
     <<[given |-> TRUE, val |-> TRUE], NoOption>>,
     <<[given |-> TRUE, val |-> TRUE], [given |-> TRUE, val |-> 1]>>,
     <<[given |-> TRUE, val |-> TRUE], [given |-> TRUE, val |-> 6]>>,
     <<[given |-> TRUE, val |-> TRUE], [given |-> TRUE, val |-> 144]>>,
     <<[given |-> TRUE, val |-> TRUE], [given |-> TRUE, val |-> 300]>>}

\* An engine with the default price and discount rate and those cap options.
Init ==
    \E cp \in TermCapOptions : Construct(NoOption, NoOption, cp[1], cp[2])

\* An engine with any options.
InitPricing ==
    \E bp \in BasePriceOptions, dr \in DiscountRateOptions,
       ct \in CapTermOptions, mt \in MaxTermOptions :
        Construct(bp, dr, ct, mt)

\* The prices and rates, and the caps, of the engines schedules are asked of.
SchedulePricingOptions ==
    {<<NoOption, NoOption>>,
     <<[given |-> TRUE, val |-> 998], [given |-> TRUE, val |-> 333]>>,
     <<[given |-> TRUE, val |-> 2000], [given |-> TRUE, val |-> -1]>>,
     <<[given |-> TRUE, val |-> 0], [given |-> TRUE, val |-> 0]>>,
     <<[given |-> TRUE, val |-> 25], [given |-> TRUE, val |-> 500]>>}

ScheduleCapOptions ==
    {<<NoOption, NoOption>>,
     <<[given |-> TRUE, val |-> TRUE], [given |-> TRUE, val |-> 6]>>,
     <<[given |-> TRUE, val |-> TRUE], [given |-> TRUE, val |-> 1]>>,
     <<[given |-> TRUE, val |-> TRUE], NoOption>>}

InitSchedule ==
    \E pr \in SchedulePricingOptions, cp \in ScheduleCapOptions :
        Construct(pr[1], pr[2], cp[1], cp[2])

InstanceCapOptions ==
    {<<NoOption, NoOption>>,
     <<[given |-> TRUE, val |-> TRUE], [given |-> TRUE, val |-> 6]>>}

\* Two instances, each with caps of its own.
InitInstances ==
    \E cp \in InstanceCapOptions, pp \in InstanceCapOptions :
        ConstructBoth(NoOption, NoOption, cp[1], cp[2],
                      NewInstance(NoOption, NoOption, pp[1], pp[2]))

\* The history kept of the calls: mem stays the earlier call it is (keep), or
\* becomes the call just before this one (adjacent).
Remember(keep) ==
    mem' = IF keep THEN [mem EXCEPT !.adjacent = FALSE]
           ELSE IF last.op \in {"getNextTerm", "calculateNextBilling"}
                THEN [last EXCEPT !.adjacent = TRUE]
                ELSE NoCall

\* The cache stays within the model's bound.
WithinBound(c) == Len(SequenceAfter(sequence, c)) <= MaxLen

GetNextTerm(c, keep) ==
    /\ WithinBound(c)
    /\ sequence' = SequenceAfter(sequence, c)
    /\ last' = [op |-> "getNextTerm", arg |-> c,
                term |-> getNextTerm(sequence, c, capTerm, maxTerm),
                info |-> NoInfo, adjacent |-> FALSE,
                schedule |-> <<>>, summary |-> NoSummary]
    /\ Remember(keep)
    /\ peer' = [peer EXCEPT !.sequence = InstanceCache(peer.sequence, sequence')]
    /\ active' = "engine"
    /\ UNCHANGED <<config, stripe>>

CalculateNextBilling(c, keep) ==
    /\ WithinBound(c)
    /\ sequence' = SequenceAfter(sequence, c)
    /\ last' = [op |-> "calculateNextBilling", arg |-> c,
                term |-> getNextTerm(sequence, c, capTerm, maxTerm),
                info |-> calculateNextBilling(sequence, c, basePrice, discountRate,
                                              capTerm, maxTerm),
                adjacent |-> FALSE,
                schedule |-> <<>>, summary |-> NoSummary]
    /\ Remember(keep)
    /\ peer' = [peer EXCEPT !.sequence = InstanceCache(peer.sequence, sequence')]
    /\ active' = "engine"
    /\ UNCHANGED <<config, stripe>>

\* The cache a schedule of n cycles leaves (one entry per cycle at least)
\* stays within the model's bound.
ScheduleWithinBound(n) == n <= MaxLen

GenerateBillingSchedule(n) ==
    /\ ScheduleWithinBound(n)
    /\ \E g \in {generateBillingSchedule(sequence, n, basePrice, discountRate,
                                          capTerm, maxTerm)} :
        /\ sequence' = g.sequence
        /\ last' = [op |-> "generateBillingSchedule", arg |-> n, term |-> 0,
                    info |-> NoInfo, adjacent |-> FALSE,
                    schedule |-> g.schedule, summary |-> NoSummary]
    /\ Remember(TRUE)
    /\ peer' = [peer EXCEPT !.sequence = InstanceCache(peer.sequence, sequence')]
    /\ active' = "engine"
    /\ UNCHANGED <<config, stripe>>

GetBillingSummary(n) ==
    /\ ScheduleWithinBound(n)
    /\ \E g \in {generateBillingSchedule(sequence, n, basePrice, discountRate,
                                          capTerm, maxTerm)} :
        \E totals \in {Totals(g.schedule)} :
            /\ sequence' = g.sequence
            /\ \E up1 \in BOOLEAN, up2 \in BOOLEAN :
                 last' = [op |-> "getBillingSummary", arg |-> n, term |-> 0,
                          info |-> NoInfo, adjacent |-> FALSE,
                          schedule |-> g.schedule,
                          summary |-> getBillingSummary(n, totals, up1, up2)]
    /\ Remember(TRUE)
    /\ peer' = [peer EXCEPT !.sequence = InstanceCache(peer.sequence, sequence')]
    /\ active' = "engine"
    /\ UNCHANGED <<config, stripe>>

\* getNextTerm(c) or calculateNextBilling(c) called on the second instance.
PeerTermCall(c) ==
    /\ Len(SequenceAfter(peer.sequence, c)) <= MaxLen
    /\ \E written \in {SequenceAfter(peer.sequence, c)} :
        /\ peer' = [peer EXCEPT !.sequence = written]
        /\ sequence' = InstanceCache(sequence, written)
    /\ active' = "peer"
    /\ UNCHANGED <<config, last, mem, stripe>>

\* generateBillingSchedule(n) or getBillingSummary(n) called on the second instance.
PeerScheduleCall(n) ==
    /\ ScheduleWithinBound(n)
    /\ \E g \in {generateBillingSchedule(peer.sequence, n, peer.basePrice,
                                          peer.discountRate, peer.capTerm, peer.maxTerm)} :
        /\ peer' = [peer EXCEPT !.sequence = g.sequence]
        /\ sequence' = InstanceCache(sequence, g.sequence)
    /\ active' = "peer"
    /\ UNCHANGED <<config, last, mem, stripe>>

Next ==
    \/ \E c \in Cycles, keep \in BOOLEAN : GetNextTerm(c, keep)
    \/ \E c \in Cycles, keep \in BOOLEAN : CalculateNextBilling(c, keep)

\* The same operations with no history kept (mem stays empty).
NextPricing ==
    \/ \E c \in Cycles : GetNextTerm(c, TRUE)
    \/ \E c \in Cycles : CalculateNextBilling(c, TRUE)

\* All four operations, no history kept.
NextSchedule ==
    \/ \E c \in Cycles : GetNextTerm(c, TRUE)
    \/ \E c \in Cycles : CalculateNextBilling(c, TRUE)
    \/ \E n \in CycleCounts : GenerateBillingSchedule(n)
    \/ \E n \in CycleCounts : GetBillingSummary(n)

Spec == Init /\ [][Next]_vars

SpecPricing == InitPricing /\ [][NextPricing]_vars

SpecSchedule == InitSchedule /\ [][NextSchedule]_vars

\* The four operations on one instance interleaved with calls on the other.
NextInstances ==
    \/ NextSchedule
    \/ \E c \in Cycles : PeerTermCall(c)
    \/ \E n \in CycleCounts : PeerScheduleCall(n)

SpecInstances == InitInstances /\ [][NextInstances]_vars

-----------------------------------------------------------------------------
(* FibonacciStripeIntegration *)

\* this.billingEngine.calculateNextBilling(c) called by the integration: what
\* the call does to the engine.
EngineBilling(c) ==
    /\ WithinBound(c)
    /\ sequence' = SequenceAfter(sequence, c)
    /\ last' = [op |-> "calculateNextBilling", arg |-> c,
                term |-> getNextTerm(sequence, c, capTerm, maxTerm),
                info |-> calculateNextBilling(sequence, c, basePrice, discountRate,
                                              capTerm, maxTerm),
                adjacent |-> FALSE,
                schedule |-> <<>>, summary |-> NoSummary]
    /\ Remember(TRUE)
    /\ peer' = [peer EXCEPT !.sequence = InstanceCache(peer.sequence, sequence')]
    /\ active' = "engine"
    /\ UNCHANGED config

\* createSubscription for a new subscription id.  calculateNextBilling(0) is
\* called before the awaits; it reads an entry the cache always has, so the
\* call is one step.  With no price found for the product the call throws
\* before anything is written.
CreateSubscription(id, found) ==
    /\ subscriptions[id] = NoMetadata
    /\ EngineBilling(0)
    /\ subscriptions' = IF found
                        THEN [subscriptions EXCEPT ![id] = Metadata(last'.info)]
                        ELSE subscriptions
    /\ UNCHANGED calls

\* updateSubscriptionToNextTerm, up to the answer of subscriptions.retrieve:
\* the metadata as Stripe has them now (a subscription without
\* fibonacciBillingCycle makes the call throw).
UpdateRetrieve(id) ==
    /\ calls[id].pc = "idle"
    /\ subscriptions[id] # NoMetadata
    /\ calls' = [calls EXCEPT ![id] = [pc |-> "retrieved", metadata |-> subscriptions[id],
                                       nextBilling |-> NoInfo]]
    /\ UNCHANGED <<config, sequence, last, mem, peer, active, subscriptions>>

\* updateSubscriptionToNextTerm, from the answer of retrieve to the await of
\* prices.create: the cycle parsed and the next billing calculated.
UpdateCalculate(id) ==
    /\ calls[id].pc = "retrieved"
    /\ \E currentCycle \in {parseInt(calls[id].metadata.fibonacciBillingCycle)} :
        /\ currentCycle <= MaxCycle
        /\ EngineBilling(currentCycle)
    /\ calls' = [calls EXCEPT ![id] = [pc |-> "calculated", metadata |-> calls[id].metadata,
                                       nextBilling |-> last'.info]]
    /\ UNCHANGED subscriptions

\* updateSubscriptionToNextTerm, subscriptions.update: the metadata written.
UpdateWrite(id) ==
    /\ calls[id].pc = "calculated"
    /\ subscriptions' = [subscriptions EXCEPT ![id] = Metadata(calls[id].nextBilling)]
    /\ calls' = [calls EXCEPT ![id] = NoUpdate]
    /\ UNCHANGED <<config, sequence, last, mem, peer, active>>

\* The process restarts: the integration, and with it its engine, is
\* constructed again from the same options; the calls under way are lost, the
\* subscriptions stay with Stripe.
Restart ==
    /\ sequence' = NewInstance(options.basePrice, options.discountRate,
                               options.capTerm, options.maxTerm).sequence
    /\ calls' = [id \in SubscriptionIds |-> NoUpdate]
    /\ last' = NoCall
    /\ mem' = NoCall
    /\ active' = "none"
    /\ UNCHANGED <<config, peer, subscriptions>>

\* The billing options the integration is constructed with.
InitStripe ==
    \E cp \in InstanceCapOptions : Construct(NoOption, NoOption, cp[1], cp[2])

NextStripe ==
    \/ \E id \in SubscriptionIds, found \in BOOLEAN : CreateSubscription(id, found)
    \/ \E id \in SubscriptionIds : UpdateRetrieve(id)
    \/ \E id \in SubscriptionIds : UpdateCalculate(id)
    \/ \E id \in SubscriptionIds : UpdateWrite(id)
    \/ Restart

SpecStripe == InitStripe /\ [][NextStripe]_vars

-----------------------------------------------------------------------------
(* Properties *)

\* The billing terms 1, 2, 3, 5, 8, 13, ... (README, "What is Fibonacci Billing?")
RECURSIVE T(_)
T(i) == IF i = 0 THEN 1 ELSE IF i = 1 THEN 2 ELSE T(i - 1) + T(i - 2)

\* The cap is in effect.
CapOn == capTerm /\ maxTerm > 0

\* The call returned a term.
IsTermCall(call) == call.op \in {"getNextTerm", "calculateNextBilling"}

\* The element at the index the most recent call (cycle >= 0) selected, read
\* from the cache as that call left it.
SelectedElement ==
    sequence[(IF last.arg <= Len(sequence) - 1 THEN last.arg ELSE Len(sequence) - 1) + 1]

\* v, in hundredths, is num / den rounded to 2 decimals.
NearestHundredth(v, num, den) == 2 * Abs(v * den - num) <= den

\* C1: with capping off, getNextTerm(currentCycle) for currentCycle >= 0
\* returns T(currentCycle), whatever calls preceded it.
C1_TermIsFibonacci ==
    (last.op = "getNextTerm" /\ last.arg >= 0 /\ ~CapOn) => last.term = T(last.arg)

\* C2: after getNextTerm(currentCycle) with currentCycle >= 0 the cache holds
\* at least currentCycle + 1 entries, so the selected index is currentCycle.
C2_CacheCoversCycle ==
    (last.op = "getNextTerm" /\ last.arg >= 0) => Len(sequence) >= last.arg + 1

\* C3: two consecutive calls calculateNextBilling(k), nothing in between,
\* return records equal in every field.
C3_Idempotent ==
    (last.op = "calculateNextBilling" /\ mem.op = "calculateNextBilling"
        /\ mem.adjacent /\ mem.arg = last.arg)
    => mem.info = last.info

\* C4: with capping off, any two calls on one instance for cycles a <= b
\* return terms ta <= tb, in whichever order the calls were made.
C4_Monotone ==
    (~CapOn /\ IsTermCall(last) /\ IsTermCall(mem))
    => /\ (mem.arg <= last.arg => mem.term <= last.term)
       /\ (last.arg <= mem.arg => last.term <= mem.term)

\* C5: with capping on, once some cycle c has T(c) >= maxTerm, getNextTerm(c')
\* returns exactly maxTerm for every c' >= c.
C5_ConstantOnceCapped ==
    (CapOn /\ last.op = "getNextTerm" /\ last.arg >= 0
        /\ \E c \in 0..last.arg : T(c) >= maxTerm)
    => last.term = maxTerm

\* C6: with capping on, every term getNextTerm returns is <= maxTerm (negative
\* cycles included), and for a cycle >= 0 it is min(selected element, maxTerm).
C6_CappedTerm ==
    (CapOn /\ last.op = "getNextTerm")
    => /\ last.term <= maxTerm
       /\ last.arg >= 0 =>
            last.term = (IF SelectedElement <= maxTerm THEN SelectedElement ELSE maxTerm)

\* C6 witness: a cycle >= 0 whose selected element exceeds maxTerm.
C6_Witness ==
    /\ CapOn /\ last.op = "getNextTerm" /\ last.arg >= 0
    /\ SelectedElement > maxTerm /\ last.term = maxTerm

\* C7: getNextTerm with a negative cycle returns 1 and leaves the cache as it
\* was, in every cache state and configuration.
C7_NegativeCycle ==
    [][(last'.op = "getNextTerm" /\ last'.arg < 0)
        => (last'.term = 1 /\ sequence' = sequence)]_vars

\* C7 witness: a negative cycle asked of a grown cache with the cap on.
C7_Witness ==
    /\ last.op = "getNextTerm" /\ last.arg < 0 /\ last.term = 1
    /\ Len(sequence) > Len(SeedSequence) /\ CapOn

\* C8: with basePrice > 0 and discountRate in [0,1], calculateNextBilling
\* returns termMonths = the term getNextTerm resolves, baseAmount = basePrice *
\* termMonths, discount = 100 * min(discountRate * (termMonths - 1), 0.5),
\* finalAmount = baseAmount * (1 - discount/100), savingsAmount = baseAmount -
\* finalAmount, effectiveMonthlyRate = finalAmount / termMonths, each rounded
\* to 2 decimals; basePrice 20, rate 0.05, cycle 3 gives 5, 100, 20, 80, 20, 16.
C8_BillingFields ==
    (last.op = "calculateNextBilling" /\ basePrice > 0 /\ discountRate \in 0..RateScale)
    => LET i == last.info
           t == i.termMonths
           base == basePrice * t
           frac == IF discountRate * (t - 1) <= DiscountCap
                   THEN discountRate * (t - 1) ELSE DiscountCap
       IN  /\ t = IF last.arg < 0 THEN 1
                  ELSE IF CapOn /\ maxTerm < SelectedElement THEN maxTerm
                  ELSE SelectedElement
           /\ NearestHundredth(i.baseAmount, base, 1)
           /\ NearestHundredth(i.discount, frac * PercentScale * Hundredths, RateScale)
           /\ NearestHundredth(i.finalAmount, base * (RateScale - frac), RateScale)
           /\ NearestHundredth(i.savingsAmount, base * frac, RateScale)
           /\ NearestHundredth(i.effectiveMonthlyRate, base * (RateScale - frac),
                               RateScale * t)
           /\ (basePrice = 2000 /\ discountRate = 50 /\ last.arg = 3 /\ ~CapOn)
                => i = [cycle |-> 4, termMonths |-> 5, baseAmount |-> 10000,
                        discount |-> 2000, finalAmount |-> 8000,
                        savingsAmount |-> 2000, effectiveMonthlyRate |-> 1600]

\* C8 witness: the example, basePrice 20, rate 0.05, cycle 3.
C8_Witness ==
    /\ last.op = "calculateNextBilling" /\ last.arg = 3
    /\ basePrice = 2000 /\ discountRate = 50 /\ ~CapOn
    /\ last.info.termMonths = 5 /\ last.info.finalAmount = 8000

\* C9: the discount of every record calculateNextBilling returns is at most
\* 50, for every cycle, term and discountRate; with discountRate in [0,1] it
\* lies in 0..50.
C9_DiscountAtMost50 ==
    last.op = "calculateNextBilling"
    => /\ last.info.discount <= 50 * Hundredths
       /\ discountRate \in 0..RateScale => last.info.discount >= 0

\* C9 witness: discountRate * (termMonths - 1) is above 0.5 and the discount is 50.
C9_Witness ==
    /\ last.op = "calculateNextBilling"
    /\ discountRate * (last.info.termMonths - 1) > DiscountCap
    /\ last.info.discount = 50 * Hundredths

\* C10: a one-month term (cycle 0, a negative cycle, or maxTerm = 1 with the cap
\* on) gives discount 0, savingsAmount 0 and finalAmount = baseAmount =
\* effectiveMonthlyRate = basePrice, for every discountRate.
C10_OneMonthTerm ==
    (last.op = "calculateNextBilling"
        /\ (last.arg <= 0 \/ (CapOn /\ maxTerm = 1)))
    => /\ last.info.termMonths = 1
       /\ last.info.discount = 0
       /\ last.info.savingsAmount = 0
       /\ last.info.finalAmount = basePrice
       /\ last.info.baseAmount = basePrice
       /\ last.info.effectiveMonthlyRate = basePrice

\* C10 witness: a later cycle capped to one month, with a non-default rate.
C10_Witness ==
    /\ last.op = "calculateNextBilling" /\ last.arg > 0
    /\ CapOn /\ maxTerm = 1 /\ discountRate # DefaultDiscountRate
    /\ last.info.termMonths = 1 /\ last.info.finalAmount = basePrice

\* The sum of a field over a schedule, from its first entry on.
RECURSIVE SumOf(_, _)
SumOf(schedule, field) ==
    IF schedule = <<>> THEN 0 ELSE schedule[1][field] + SumOf(Tail(schedule), field)

\* v, in hundredths of a percent, is num / den * 100 rounded to 2 decimals
\* (den > 0); the comparison is split at num * 100 to stay within 32 bits.
NearestPercent(v, num, den) ==
    LET x == Abs(num) * PercentScale
        w == Abs(v) - Hundredths * (x \div den)
    IN  /\ (v >= 0) = (num >= 0) \/ v = 0
        /\ 2 * Abs(w * den - Hundredths * (x % den)) <= den

\* The schedule generateBillingSchedule(n) returns in the current state.
ScheduleNow(n) ==
    generateBillingSchedule(sequence, n, basePrice, discountRate, capTerm, maxTerm).schedule

\* C11: the cycle field calculateNextBilling(currentCycle) returns is
\* currentCycle + 1, in every configuration and cache state.
C11_CycleField ==
    last.op = "calculateNextBilling" => last.info.cycle = last.arg + 1

\* C11 witness: a negative cycle, reported as cycle <= 0, on a grown cache.
C11_Witness ==
    /\ last.op = "calculateNextBilling" /\ last.arg < 0
    /\ last.info.cycle = last.arg + 1 /\ Len(sequence) > Len(SeedSequence)

\* C12: generateBillingSchedule(n), n >= 0, returns exactly n entries with
\* cycle fields 1..n in order, entry i (0-based) being what
\* calculateNextBilling(i) returns.
C12_ScheduleEntries ==
    last.op = "generateBillingSchedule"
    => /\ Len(last.schedule) = last.arg
       /\ \A i \in 1..Len(last.schedule) :
            /\ last.schedule[i].cycle = i
            /\ last.schedule[i] = calculateNextBilling(sequence, i - 1, basePrice,
                                                       discountRate, capTerm, maxTerm)

\* C12 witness: a schedule longer than the seeded cache.
C12_Witness ==
    /\ last.op = "generateBillingSchedule" /\ last.arg > Len(SeedSequence)
    /\ Len(last.schedule) = last.arg /\ last.schedule[last.arg].cycle = last.arg

\* C13: for n >= 1, getBillingSummary(n) aggregates generateBillingSchedule(n)
\* of the same state: cycles = n, totalMonths, totalAmount, totalBaseAmount and
\* totalSavings the sums of termMonths, finalAmount, baseAmount and
\* savingsAmount, savingsPercentage = totalSavings / totalBaseAmount * 100 and
\* effectiveMonthlyRate = totalAmount / totalMonths, rounded to 2 decimals.
C13_SummaryAggregates ==
    (last.op = "getBillingSummary" /\ last.arg >= 1)
    => LET sch == ScheduleNow(last.arg)
           sm == last.summary
       IN  /\ sm.cycles = last.arg
           /\ sm.totalMonths = SumOf(sch, "termMonths")
           /\ sm.totalAmount = SumOf(sch, "finalAmount")
           /\ sm.totalBaseAmount = SumOf(sch, "baseAmount")
           /\ sm.totalSavings = SumOf(sch, "savingsAmount")
           /\ sm.savingsPercentage.kind = "finite"
           /\ NearestPercent(sm.savingsPercentage.val, SumOf(sch, "savingsAmount"),
                             SumOf(sch, "baseAmount"))
           /\ sm.effectiveMonthlyRate.kind = "finite"
           /\ NearestHundredth(sm.effectiveMonthlyRate.val, SumOf(sch, "finalAmount"),
                               SumOf(sch, "termMonths"))

\* C13 witness: a summary over more cycles than the seeded cache holds, at a
\* price and rate that make the amounts round.
C13_Witness ==
    /\ last.op = "getBillingSummary" /\ last.arg > Len(SeedSequence)
    /\ basePrice = 998 /\ discountRate = 333
    /\ last.summary.totalMonths > last.arg
    /\ last.summary.totalSavings > 0

C15_OptionsStored ==
    /\ basePrice = IF options.basePrice.given THEN options.basePrice.val
                   ELSE DefaultBasePrice
    /\ discountRate = IF options.discountRate.given THEN options.discountRate.val
                      ELSE DefaultDiscountRate
    /\ capTerm = IF options.capTerm.given THEN options.capTerm.val ELSE FALSE
    /\ maxTerm = IF options.maxTerm.given THEN options.maxTerm.val ELSE DefaultMaxTerm

\* C16: on an engine constructed with basePrice = 0 every cycle's baseAmount
\* and finalAmount are 0, the summary's totalBaseAmount is 0 and its
\* savingsPercentage is the non-finite 0 / 0.
C16_ZeroPricePropagates ==
    (options.basePrice.given /\ options.basePrice.val = 0)
    => /\ last.op = "calculateNextBilling"
            => (last.info.baseAmount = 0 /\ last.info.finalAmount = 0)
       /\ last.op = "getBillingSummary"
            => /\ last.summary.totalBaseAmount = 0
               /\ last.summary.savingsPercentage.kind # "finite"

\* C17: with cycles = 0, generateBillingSchedule returns the empty list and
\* leaves the cache unchanged; getBillingSummary returns cycles 0, totalMonths
\* 0, the three totals 0 and savingsPercentage and effectiveMonthlyRate the
\* result of 0 / 0.
C17_ZeroCycles ==
    [][/\ (last'.op = "generateBillingSchedule" /\ last'.arg = 0)
            => (last'.schedule = <<>> /\ sequence' = sequence)
       /\ (last'.op = "getBillingSummary" /\ last'.arg = 0)
            => /\ sequence' = sequence
               /\ last'.summary =
                    [cycles |-> 0, totalMonths |-> 0, totalAmount |-> 0,
                     totalBaseAmount |-> 0, totalSavings |-> 0,
                     savingsPercentage |-> NaN, effectiveMonthlyRate |-> NaN]]_vars

\* C17 witness: a summary of 0 cycles asked of a grown cache.
C17_Witness ==
    /\ last.op = "getBillingSummary" /\ last.arg = 0
    /\ last.summary.savingsPercentage = NaN /\ last.summary.effectiveMonthlyRate = NaN
    /\ Len(sequence) > Len(SeedSequence)

\* C18: across the four operations the cache never gets shorter, an entry
\* once present never changes (the 11 seeded entries stay at indices 0..10)
\* and the configuration fields are never modified.
C18_CacheOnlyGrows ==
    [][/\ Len(sequence') >= Len(sequence)
       /\ SubSeq(sequence', 1, Len(sequence)) = sequence
       /\ SubSeq(sequence', 1, Len(SeedSequence)) = SeedSequence
       /\ <<basePrice', discountRate', capTerm', maxTerm'>>
            = <<basePrice, discountRate, capTerm, maxTerm>>]_vars

\* C18 witness: a summary call has left a cache two entries longer than the seed.
C18_Witness ==
    /\ last.op = "getBillingSummary"
    /\ Len(sequence) >= Len(SeedSequence) + 2
    /\ SubSeq(sequence, 1, Len(SeedSequence)) = SeedSequence

\* C19: of two separately constructed engines, operations on one leave the
\* other's cache and configuration (hence what its later operations return)
\* unchanged.
C19_InstancesIndependent ==
    [][/\ active' = "engine" => peer' = peer
       /\ active' = "peer" => (sequence' = sequence /\ config' = config)]_vars

\* C19 witness: the second instance has grown its cache after calls on the
\* first, whose cache is still the seed.
C19_Witness ==
    /\ active = "peer" /\ last.op # "none"
    /\ Len(peer.sequence) > Len(SeedSequence)
    /\ sequence = SeedSequence

\* C20: in every reachable state the cache has at least 11 entries, starts
\* with 1, 2 and has seq[i] = seq[i-1] + seq[i-2] from the third entry on,
\* hence is strictly increasing.
C20_CacheIsFibonacci ==
    /\ Len(sequence) >= 11
    /\ sequence[1] = 1 /\ sequence[2] = 2
    /\ \A i \in 3..Len(sequence) : sequence[i] = sequence[i - 1] + sequence[i - 2]
    /\ \A i \in 2..Len(sequence) : sequence[i] > sequence[i - 1]

\* C20 witness: a cache grown by two entries.
C20_Witness ==
    /\ Len(sequence) >= Len(SeedSequence) + 2
    /\ sequence[Len(sequence)] = sequence[Len(sequence) - 1] + sequence[Len(sequence) - 2]

\* The term of cycle c under the engine's cap: min(T(c), maxTerm) with the cap
\* in effect, T(c) without.
CappedT(c) == IF CapOn /\ maxTerm < T(c) THEN maxTerm ELSE T(c)

\* C21: getNextTerm(c) with 0 <= c < the cache length leaves the cache as it
\* was and returns the (capped) term T(c) whatever calls, by whichever caller,
\* came before it: any interleaving of such calls returns what a sequential
\* execution returns.
C21_PopulatedReads ==
    [][(last'.op = "getNextTerm" /\ last'.arg >= 0 /\ last'.arg < Len(sequence))
        => /\ sequence' = sequence
           /\ last'.term = CappedT(last'.arg)
           /\ (mem'.op = "getNextTerm" /\ mem'.arg = last'.arg
                   /\ mem'.arg < Len(SeedSequence))
                => mem'.term = last'.term]_vars

\* C21 witness: two reads of populated entries, the later of an entry beyond
\* the seeded ones, by a call that found the cache already 13 long.
C21_Witness ==
    /\ last.op = "getNextTerm" /\ last.arg = Len(SeedSequence)
    /\ Len(sequence) = Len(SeedSequence) + 2
    /\ last.term = T(last.arg) /\ ~CapOn
    /\ mem.op = "getNextTerm" /\ mem.arg \in 0..(Len(SeedSequence) - 1)

\* C23: with capTerm false (any maxTerm), or capTerm true and maxTerm = 0,
\* getNextTerm returns the selected sequence element unclamped.
C23_CapNeedsBoth ==
    (last.op = "getNextTerm" /\ last.arg >= 0 /\ (~capTerm \/ maxTerm = 0))
    => last.term = SelectedElement

\* C23 witness: capTerm explicitly false with maxTerm 6, a term above 6 returned.
C23_Witness ==
    /\ last.op = "getNextTerm" /\ last.arg >= 0
    /\ options.capTerm.given /\ ~capTerm /\ maxTerm = 6
    /\ last.term > maxTerm /\ last.term = SelectedElement

\* C25: one getNextTerm call appends at most one element: from length L the
\* cache goes to L + 1 if currentCycle >= L and stays at L otherwise, and when
\* currentCycle >= L the value selected (before the cap) is the element at
\* index min(currentCycle, L), the newly appended last one.
C25_OneAppendPerCall ==
    [][last'.op = "getNextTerm"
        => IF last'.arg >= Len(sequence)
           THEN /\ Len(sequence') = Len(sequence) + 1
                /\ Min(last'.arg, Len(sequence)) + 1 = Len(sequence')
                /\ last'.term = ApplyCap(sequence'[Len(sequence')], capTerm, maxTerm)
                /\ sequence'[Len(sequence')]
                     = sequence[Len(sequence)] + sequence[Len(sequence) - 1]
           ELSE Len(sequence') = Len(sequence)]_vars

\* C25 witness: cycle 13 asked of the seeded cache: one element appended, and
\* returned, for a cycle two beyond it.
C25_Witness ==
    /\ last.op = "getNextTerm" /\ last.arg = Len(SeedSequence) + 2
    /\ Len(sequence) = Len(SeedSequence) + 1
    /\ ~CapOn /\ last.term = sequence[Len(sequence)]

\* C27: with capTerm true and 0 < maxTerm <= 144, getNextTerm(currentCycle)
\* for currentCycle >= 0 returns min(T(currentCycle), maxTerm) after every call
\* history, so two calls for one cycle return the same term.
C27_CappedTermIsPure ==
    (CapOn /\ maxTerm <= SeedSequence[Len(SeedSequence)]
        /\ last.op = "getNextTerm" /\ last.arg >= 0)
    => /\ last.term = Min(T(last.arg), maxTerm)
       /\ (mem.op = "getNextTerm" /\ mem.arg = last.arg) => mem.term = last.term

\* C27 witness: maxTerm 144 and cycle 13 asked of a cache 11 long, which
\* selects the appended 233, after an earlier call for another cycle.
C27_Witness ==
    /\ CapOn /\ maxTerm = SeedSequence[Len(SeedSequence)]
    /\ last.op = "getNextTerm" /\ last.arg = Len(SeedSequence) + 2
    /\ Len(sequence) = Len(SeedSequence) + 1
    /\ last.term = maxTerm
    /\ mem.op = "getNextTerm" /\ mem.arg # last.arg

\* C22: generateBillingSchedule(N), from any reachable state, leaves a cache of
\* at least max(11, N) entries and appends at most max(0, N - previous length)
\* elements to it.
C22_SchedulePopulatesCache ==
    [][last'.op = "generateBillingSchedule"
        => /\ Len(sequence') >= Len(SeedSequence)
           /\ Len(sequence') >= last'.arg
           /\ SubSeq(sequence', 1, Len(sequence)) = sequence
           /\ Len(sequence') - Len(sequence)
                <= (IF last'.arg > Len(sequence) THEN last'.arg - Len(sequence) ELSE 0)]_vars

\* C22 witness: a schedule of 13 cycles has left a cache of exactly 13 entries.
C22_Witness ==
    /\ last.op = "generateBillingSchedule" /\ last.arg = Len(SeedSequence) + 2
    /\ Len(sequence) = last.arg

\* C24: with basePrice > 0 and discountRate in [0,1], savingsAmount is the
\* difference of the unrounded base and discounted amounts rounded once, and
\* the displayed baseAmount - finalAmount is within 0.01 of it.
C24_SavingsRoundedOnce ==
    (last.op = "calculateNextBilling" /\ basePrice > 0 /\ discountRate \in 0..RateScale)
    => LET i == last.info
           base == basePrice * i.termMonths
           frac == Min(discountRate * (i.termMonths - 1), DiscountCap)
           discounted == base * (RateScale - frac)
       IN  /\ NearestHundredth(i.savingsAmount, base * RateScale - discounted, RateScale)
           /\ Abs((i.baseAmount - i.finalAmount) - i.savingsAmount) <= 1

\* C24 witness: basePrice 0.25, rate 0.5: a discounted amount ending in half a
\* cent (0.375 of 0.75), where the displayed difference is 0.01 off the savings.
C24_Witness ==
    /\ last.op = "calculateNextBilling" /\ basePrice = 25 /\ discountRate = 500
    /\ Abs((last.info.baseAmount - last.info.finalAmount) - last.info.savingsAmount) = 1

\* C26: after any operations on the instance, entry i of
\* generateBillingSchedule(n) has termMonths = T(i), clamped to maxTerm with
\* the cap on; generateBillingSchedule(n) called again returns an equal list,
\* and getBillingSummary(n) called afterwards aggregates that list.
C26_ScheduleIgnoresHistory ==
    last.op \in {"generateBillingSchedule", "getBillingSummary"}
    => /\ \A i \in 1..Len(last.schedule) : last.schedule[i].termMonths = CappedT(i - 1)
       /\ ScheduleNow(last.arg) = last.schedule
       /\ \A up1 \in BOOLEAN, up2 \in BOOLEAN :
            LET sm == getBillingSummary(last.arg, Totals(ScheduleNow(last.arg)), up1, up2)
            IN  /\ sm.cycles = Len(last.schedule)
                /\ sm.totalMonths = SumOf(last.schedule, "termMonths")
                /\ sm.totalAmount = SumOf(last.schedule, "finalAmount")
                /\ sm.totalBaseAmount = SumOf(last.schedule, "baseAmount")
                /\ sm.totalSavings = SumOf(last.schedule, "savingsAmount")

\* C26 witness: a schedule of 12 cycles asked of a cache that earlier calls
\* had grown to 13 entries.
C26_Witness ==
    /\ last.op = "generateBillingSchedule" /\ last.arg = Len(SeedSequence) + 1
    /\ Len(sequence) = Len(SeedSequence) + 2
    /\ ~CapOn /\ last.schedule[last.arg].termMonths = T(last.arg - 1)

\* C28: with the cap off or maxTerm >= 1, every term getNextTerm returns, for
\* any cycle and cache state, is an integer >= 1: calculateNextBilling never
\* divides by zero and the totalMonths of a non-empty schedule is at least its
\* number of cycles.
C28_TermAtLeastOne ==
    (~CapOn \/ maxTerm >= 1)
    => /\ IsTermCall(last) => (last.term \in Nat /\ last.term >= 1)
       /\ last.op = "calculateNextBilling" => last.info.termMonths >= 1
       /\ \A i \in 1..Len(last.schedule) : last.schedule[i].termMonths >= 1
       /\ (last.op = "getBillingSummary" /\ last.arg >= 1)
            => /\ last.summary.totalMonths >= last.arg
               /\ last.summary.effectiveMonthlyRate.kind = "finite"

\* C28 witness: a summary with every term capped to one month, totalMonths
\* equal to the number of cycles.
C28_Witness ==
    /\ last.op = "getBillingSummary" /\ last.arg > Len(SeedSequence)
    /\ CapOn /\ maxTerm = 1
    /\ last.summary.totalMonths = last.arg

\* C29: with basePrice > 0 and discountRate in [0,1], before rounding
\* baseAmount / 2 <= finalAmount <= baseAmount and the savings are >= 0 (the
\* rounded fields likewise); in a summary totalAmount <= totalBaseAmount and
\* savingsPercentage lies between 0 and 50, up to the half cent each entry's
\* rounding can add to the savings.
C29_AmountsBounded ==
    (basePrice > 0 /\ discountRate \in 0..RateScale)
    => /\ last.op = "calculateNextBilling"
            => LET i == last.info
                   base == basePrice * i.termMonths
                   frac == Min(discountRate * (i.termMonths - 1), DiscountCap)
                   discounted == base * (RateScale - frac)
               IN  /\ base * RateScale <= 2 * discounted
                   /\ discounted <= base * RateScale
                   /\ base * RateScale - discounted >= 0
                   /\ NearestHundredth(i.finalAmount, discounted, RateScale)
                   /\ i.baseAmount <= 2 * i.finalAmount
                   /\ i.finalAmount <= i.baseAmount
                   /\ i.savingsAmount >= 0
       /\ (last.op = "getBillingSummary" /\ last.arg >= 1)
            => LET sm == last.summary
               IN  /\ sm.totalAmount <= sm.totalBaseAmount
                   /\ sm.totalSavings >= 0
                   /\ 2 * sm.totalSavings <= sm.totalBaseAmount + last.arg
                   /\ sm.savingsPercentage.kind = "finite"
                   /\ sm.savingsPercentage.val >= 0
                   /\ sm.savingsPercentage.val
                        <= 50 * Hundredths
                             + (50 * Hundredths * last.arg) \div sm.totalBaseAmount + 1

\* C29 witness: a summary whose every cycle after the first is discounted by
\* the full 50%.
C29_Witness ==
    /\ last.op = "getBillingSummary" /\ last.arg > Len(SeedSequence)
    /\ basePrice = 25 /\ discountRate = 500 /\ ~CapOn
    /\ 2 * last.summary.totalSavings > last.summary.totalBaseAmount - 2 * last.arg
    /\ last.summary.totalAmount < last.summary.totalBaseAmount

\* C30: createSubscription writes cycle 1 and termMonths 1, and every
\* updateSubscriptionToNextTerm on a subscription whose stored
\* fibonacciBillingCycle is k writes cycle k + 1 and termMonths T(k) (clamped
\* to maxTerm with the cap on), whatever the cache of the integration's engine:
\* freshly constructed after a restart, or shared with other subscriptions.
C30_RenewalProgression ==
    [][\A id \in SubscriptionIds :
        /\ (subscriptions[id] = NoMetadata /\ subscriptions'[id] # NoMetadata)
             => /\ parseInt(subscriptions'[id].fibonacciBillingCycle) = 1
                /\ parseInt(subscriptions'[id].termMonths) = 1
        /\ (subscriptions[id] # NoMetadata /\ subscriptions'[id] # subscriptions[id])
             => LET k == parseInt(subscriptions[id].fibonacciBillingCycle)
                IN  /\ parseInt(subscriptions'[id].fibonacciBillingCycle) = k + 1
                    /\ parseInt(subscriptions'[id].termMonths) = CappedT(k)]_vars

====
